---- MODULE Spec2Model ----
(***************************************************************************)
(* Model of report-exporter.py: the paginated Power BI export.  main loads *)
(* the credential store (refreshing the bearer when it has expired), then  *)
(* submits get_export_id for the three page batches to a pool of three     *)
(* threads; each thread submits an export, polls it, downloads it and the  *)
(* thread that sees the completion counter at 3 merges the three buffers.  *)
(***************************************************************************)
EXTENDS Integers, Sequences, FiniteSets, TLC

\* ---------------------------------------------------------------- constants
\* self.fileN = None (lines 47-49); also the None returned at line 94.
None == 0
\* Number of page batches in pages_to_exports and the value the completion
\* counter is compared with (line 167).
NumBatches == 3
\* Batch indices given by enumerate(pages_to_exports) (line 210).
Batches == 0 .. (NumBatches - 1)
\* HTTP status codes the export endpoint may answer a submit with.
SubmitStatuses == {202, 200, 400}
\* HTTP status codes of the status and file endpoints.
GetStatuses == {200, 500}
\* The id the reporting service answers the submit of a batch with
\* (res_json["id"], line 89): one fresh id per submit.
JobId(batch_num) == batch_num + 1
\* Microsecond values of datetime.now(): zero, or not zero.
Micros == {0, 1}

\* ------------------------------------------------------------------- bounds
\* Deepest chain <D>/downloaded_reports/.../downloaded_reports present when
\* the run starts (0: the directory does not exist yet).
MaxInitDepth == 1
\* Latest hour (as an index into SecondsText) the clock shows during the run.
MaxHour == 3
\* Token requests after which the model stops following a refresh loop.
MaxTokenRequests == 2

VARIABLES
  ids_txt,                  \* the file ids.txt: lines of comma-separated fields
  id_dict,                  \* the mapping retrieve_ids returned to main
  now,                      \* retrieve_ids(False): now = datetime.now() (line 304)
  access_token,             \* res["access_token"] on its way to the file
  fault,                    \* the exception that ended main, if any
  ids_initial,              \* history: ids.txt as it was when the run began
  refreshAt,                \* history: ids.txt as bearer_to_file found it
  tokenRequests,            \* history: POSTs made to the token endpoint
  issued,                   \* history: access tokens the endpoint handed out
  mainPc,                   \* position of main()
  submitted,                \* number of executor.submit calls made (line 211)
  bearer,                   \* exporter.bearer
  num_of_export_jobs_done,  \* exporter.num_of_export_jobs_done
  file1, file2, file3,      \* exporter.file1 .. file3
  pc,                       \* position of each pool thread's call
  export_id,                \* res_json["id"] / export_id of each call
  loaded,                   \* counter value read by "+= 1" before its store
  target,                   \* path computed by f'{os.getcwd()}/downloaded_reports'
  merger,                   \* pages appended to each call's PdfWriter
  future,                   \* the Future of each submitted call
  jobs,                     \* reporting service: status of each export job
  cwd,                      \* process working directory, as depth below D
  maxDir,                   \* deepest existing downloaded_reports chain
  invokedInDR,              \* basename(D) = "downloaded_reports"
  disk,                     \* merged file present in each directory
  submitStatus,             \* history: status code answered to each submit
  pollReqs,                 \* history: export ids each call fetched the status of
  succeededSeen,            \* history: calls whose status fetch said Succeeded
  downloadReqs,             \* history: file requests issued by each call
  arrival,                  \* history: batch numbers in the order their bytes arrived
  mergeStarts,              \* history: times line 168 was reached
  writes                    \* history: times lines 178-179 wrote the file

workerVars == <<pc, export_id, loaded, target, merger, future>>
exporterVars == <<bearer, num_of_export_jobs_done, file1, file2, file3>>
serviceVars == <<jobs>>
credVars == <<ids_txt, id_dict, now, access_token, fault>>
credHist == <<ids_initial, refreshAt, tokenRequests, issued>>
fsVars == <<cwd, maxDir, invokedInDR, disk>>
histVars == <<submitStatus, pollReqs, succeededSeen, downloadReqs, arrival,
              mergeStarts, writes>>
vars == <<credVars, credHist, mainPc, submitted, exporterVars, workerVars,
          serviceVars, fsVars, histVars>>

\* ----------------------------------------------------------------- helpers
\* requests.Response.raise_for_status: raises HTTPError for 4xx and 5xx.
RaiseForStatus(status) == status >= 400

\* The slots by batch number.
Slot(batch_num) ==
  CASE batch_num = 0 -> file1 [] batch_num = 1 -> file2 [] batch_num = 2 -> file3

\* Mutant: the buffers listed in the order their bytes arrived.
MergeList_ArrivalOrder ==
  [k \in 1 .. NumBatches |-> IF k <= Len(arrival) THEN Slot(arrival[k]) ELSE None]

\* The list of line 169: the three buffers in batch order.
MergeList == <<file1, file2, file3>>

\* The three buffers by position.
Buffers == <<file1, file2, file3>>

\* The bytes the file endpoint serves for an export id.
Artifact(id) == id

\* The Future of a call: not done yet, done with the value returned, or done
\* with the exception raised (executor.submit, line 211).
Pending == [done |-> FALSE, result |-> None, exception |-> "none"]
Returned(v) == [done |-> TRUE, result |-> v, exception |-> "none"]
Raised(e) == [done |-> TRUE, result |-> None, exception |-> e]

\* A call that ended: its frame's locals are gone.
Finish(i, f) ==
  /\ pc' = [pc EXCEPT ![i] = "done"]
  /\ future' = [future EXCEPT ![i] = f]
  /\ export_id' = [export_id EXCEPT ![i] = None]
  /\ loaded' = [loaded EXCEPT ![i] = 0]
  /\ target' = [target EXCEPT ![i] = 0]
  /\ merger' = [merger EXCEPT ![i] = <<>>]

\* --------------------------------------------------------- text and time
\* A field of a line is a sequence of pieces of text, " " being white space;
\* a line is the sequence of fields line.split(",") yields; a datetime is
\* [h |-> hour index, us |-> microsecond].

\* str.strip() (lines 296-297).
RECURSIVE LStrip(_)
LStrip(f) == IF f # <<>> /\ Head(f) = " " THEN LStrip(Tail(f)) ELSE f
RECURSIVE RStrip(_)
RStrip(f) == IF f # <<>> /\ f[Len(f)] = " " THEN RStrip(SubSeq(f, 1, Len(f) - 1)) ELSE f
Strip(f) == RStrip(LStrip(f))

\* The "%Y-%m-%d %H:%M:%S" part of a timestamp, by hour index.
SecondsText ==
  << "2026-11-02 08:00:00", "2026-11-02 09:00:00", "2026-11-02 10:00:00",
     "2026-11-02 11:00:00", "2026-11-02 12:00:00", "2026-11-02 13:00:00",
     "2026-11-02 14:00:00", "2026-11-02 15:00:00" >>
\* The "%f" part, by microsecond.
FractionText == [us \in Micros |-> IF us = 0 THEN "000000" ELSE "000001"]

\* str(datetime) as the f-string of line 265 formats the expiry: isoformat
\* with a space, which leaves the fraction out when the microsecond is 0.
StrOfDatetime(d) ==
  IF d.us = 0 THEN << SecondsText[d.h] >>
              ELSE << SecondsText[d.h], ".", FractionText[d.us] >>

\* Does datetime.strptime(f, "%Y-%m-%d %H:%M:%S.%f") accept the text (line 300)?
StrptimeAccepts(f) ==
  /\ Len(f) = 3
  /\ \E h \in DOMAIN SecondsText : SecondsText[h] = f[1]
  /\ f[2] = "."
  /\ \E us \in Micros : FractionText[us] = f[3]

\* datetime.strptime(f, "%Y-%m-%d %H:%M:%S.%f") of an accepted text.
Strptime(f) ==
  [h |-> CHOOSE h \in DOMAIN SecondsText : SecondsText[h] = f[1],
   us |-> CHOOSE us \in Micros : FractionText[us] = f[3]]

\* a > b on datetimes (line 305).
Later(a, b) == a.h > b.h \/ (a.h = b.h /\ a.us > b.us)

\* now + timedelta(hours=1) (line 260).
PlusHour(d) == [d EXCEPT !.h = @ + 1]

\* Values datetime.now() may return when the last one returned was d.
ClockAfter(d) ==
  { n \in [h : 1 .. MaxHour, us : Micros] : n = d \/ Later(n, d) }

\* ------------------------------------------------------------- dictionaries
\* A dict is the sequence of its <<key, value>> items in insertion order.
DictHas(d, k) == \E n \in DOMAIN d : d[n][1] = k
\* d[k] = v: a key already there keeps its place.
DictSet(d, k, v) ==
  IF DictHas(d, k)
    THEN [n \in DOMAIN d |-> IF d[n][1] = k THEN <<k, v>> ELSE d[n]]
    ELSE Append(d, <<k, v>>)
\* d.get(k): <<v>>, or <<>> for None.
DictGet(d, k) ==
  IF DictHas(d, k) THEN << (d[CHOOSE n \in DOMAIN d : d[n][1] = k])[2] >> ELSE <<>>
DictKeys(d) == { d[n][1] : n \in DOMAIN d }

\* ------------------------------------------------------------ retrieve_ids
BearerKey == << "bearer" >>

\* Lines 293-300: the loop over the lines of ids.txt, from line k on, with the
\* dict and the bearer expiry (<<>> for None) read so far.
RECURSIVE ReadLines(_, _, _, _)
ReadLines(lines, k, d, expiry) ==
  IF k > Len(lines)
    THEN [exc |-> "none", dict |-> d, bearer_expiry |-> expiry]
    ELSE LET line == lines[k] IN
      IF Len(line) < 2
        THEN [exc |-> "IndexError", dict |-> d, bearer_expiry |-> expiry]
        ELSE LET line_str == Strip(line[1])
                 line_id == Strip(line[2])
                 d2 == DictSet(d, line_str, line_id)
             IN IF line_str # BearerKey
                  THEN ReadLines(lines, k + 1, d2, expiry)
                  ELSE IF Len(line) < 3
                    THEN [exc |-> "IndexError", dict |-> d2, bearer_expiry |-> expiry]
                    ELSE IF ~StrptimeAccepts(line[3])
                      THEN [exc |-> "ValueError", dict |-> d2, bearer_expiry |-> expiry]
                      ELSE ReadLines(lines, k + 1, d2, << Strptime(line[3]) >>)

\* Mutant: the expiry is checked whatever skip_check says.
CheckExpiry_Always(skip_check) == TRUE

\* Lines 303-305: is the expiry check on?
CheckExpiry(skip_check) == ~skip_check

\* retrieve_ids(skip_check) up to line 309, on the file text and the value
\* datetime.now() returns: "raise" with the exception, "refresh" when
\* create_bearer is to be called, "dict" with the mapping to return.
RetrieveIds(skip_check, text, clock) ==
  LET r == ReadLines(text, 1, <<>>, <<>>) IN
  IF r.exc # "none" THEN [kind |-> "raise", exc |-> r.exc, dict |-> <<>>]
  ELSE IF ~CheckExpiry(skip_check) THEN [kind |-> "dict", exc |-> "none", dict |-> r.dict]
  ELSE IF r.bearer_expiry = <<>> THEN [kind |-> "raise", exc |-> "TypeError", dict |-> <<>>]
  ELSE IF Later(clock, r.bearer_expiry[1])
    THEN [kind |-> "refresh", exc |-> "none", dict |-> r.dict]
    ELSE [kind |-> "dict", exc |-> "none", dict |-> r.dict]

\* Lines 262-267: the lines bearer_to_file writes for a dict.
StoreLines(d, token, expiry) ==
  [n \in DOMAIN d |->
     IF d[n][1] = BearerKey
       THEN << BearerKey, token, StrOfDatetime(expiry) >>
       ELSE << d[n][1], d[n][2] >>]

\* -------------------------------------------------------- stores of a run
OldExpiry == [h |-> 2, us |-> 1]
OldBearerLine == << BearerKey, << "tok-old" >>, StrOfDatetime(OldExpiry) >>
\* A readable store: a plain key,value line, a space after a comma and a
\* third field on a line that is not the bearer's, a space before a comma on
\* the bearer line, and a key given twice.
LooseStore ==
  << << << "tenant_id" >>, << "t-0" >> >>,
     << << "group_id_dev" >>, << " ", "g-1" >>, << "x" >> >>,
     << << "bearer", " " >>, << "tok-old" >>, StrOfDatetime(OldExpiry) >>,
     << << "tenant_id" >>, << "t-1" >> >> >>
\* key,value lines around the bearer line of the stores below.
PlainLines ==
  << << << "tenant_id" >>, << "t-1" >> >>,
     << << "group_id_dev" >>, << "g-1" >> >> >>
\* A blank line at the end: one empty field.
BlankLineStore == << PlainLines[1], OldBearerLine, PlainLines[2], << <<>> >> >>
\* The bearer line without its expiry.
NoExpiryStore == << PlainLines[1], << BearerKey, << "tok-old" >> >>, PlainLines[2] >>
\* The bearer's expiry written without a fraction.
BadExpiryStore ==
  << PlainLines[1],
     << BearerKey, << "tok-old" >>, StrOfDatetime([h |-> 2, us |-> 0]) >>,
     PlainLines[2] >>
\* No bearer line at all.
NoBearerStore == PlainLines
\* The files ids.txt may be when the run begins.
Stores ==
  { LooseStore, BlankLineStore, NoExpiryStore, BadExpiryStore, NoBearerStore }

\* What the token endpoint's JSON holds under "access_token": <<token>>, or
\* <<>> when the key is missing (an error response).
TokenResponses == { << << "tok-new" >> >>, <<>> }

NoDatetime == [h |-> 0, us |-> 0]

\* ---------------------------------------------------------------------- Init
Init ==
  /\ ids_txt \in Stores
  /\ ids_initial = ids_txt
  /\ refreshAt = <<>>
  /\ id_dict = <<>>
  /\ now = NoDatetime
  /\ access_token = <<>>
  /\ fault = "none"
  /\ tokenRequests = 0
  /\ issued = <<>>
  /\ mainPc = "retrieve_ids"
  /\ submitted = 0
  /\ bearer = <<>>
  /\ num_of_export_jobs_done = 0
  /\ file1 = None /\ file2 = None /\ file3 = None
  /\ pc = [i \in Batches |-> "unsubmitted"]
  /\ export_id = [i \in Batches |-> None]
  /\ loaded = [i \in Batches |-> 0]
  /\ target = [i \in Batches |-> 0]
  /\ merger = [i \in Batches |-> <<>>]
  /\ future = [i \in Batches |-> Pending]
  /\ jobs = [j \in 1 .. NumBatches |-> "none"]
  /\ cwd = 0
  /\ maxDir \in 0 .. MaxInitDepth
  /\ invokedInDR \in BOOLEAN
  /\ disk = [d \in 0 .. (MaxInitDepth + NumBatches) |-> <<>>]
  /\ submitStatus = [i \in Batches |-> 0]
  /\ pollReqs = [i \in Batches |-> {}]
  /\ succeededSeen = {}
  /\ downloadReqs = [i \in Batches |-> <<>>]
  /\ arrival = <<>>
  /\ mergeStarts = 0
  /\ writes = 0

\* ---------------------------------------------------------------------- main
\* Mutant: the exception is caught and noted, and main goes on with an empty
\* dict.
Abort_Caught(exc) ==
  /\ mainPc' = "construct"
  /\ fault' = exc
  /\ id_dict' = <<>>
  /\ access_token' = <<>>

\* An exception that reaches the top of main ends the run.
Abort(exc) ==
  /\ mainPc' = "aborted"
  /\ fault' = exc
  /\ id_dict' = <<>>
  /\ access_token' = <<>>

\* The outcome r of a retrieve_ids call whose caller hands the dict on to
\* main: lines 309-311 (and 270, 244 on the way back from a refresh).
AfterRetrieve(r) ==
  CASE r.kind = "raise" -> Abort(r.exc)
    [] r.kind = "refresh" ->
         /\ mainPc' = "create_bearer"
         /\ UNCHANGED <<fault, id_dict, access_token>>
    [] r.kind = "dict" ->
         /\ mainPc' = "construct"
         /\ id_dict' = r.dict
         /\ access_token' = <<>>
         /\ UNCHANGED fault

\* Line 183: id_dict = retrieve_ids(False), up to the call of create_bearer.
MainRetrieveIds ==
  /\ mainPc = "retrieve_ids"
  /\ \E clock \in ClockAfter(now) :
       /\ now' = clock
       /\ AfterRetrieve(RetrieveIds(FALSE, ids_txt, clock))
  /\ UNCHANGED <<ids_txt, credHist, submitted, exporterVars, workerVars,
                 serviceVars, fsVars, histVars>>

\* Lines 233-243: the token request; res["access_token"] raises KeyError
\* when the answer holds no token.
CreateBearer ==
  /\ mainPc = "create_bearer"
  /\ tokenRequests < MaxTokenRequests
  /\ tokenRequests' = tokenRequests + 1
  /\ \E res \in TokenResponses :
       IF res = <<>>
         THEN /\ Abort("KeyError")
              /\ UNCHANGED issued
         ELSE /\ access_token' = res
              /\ issued' = Append(issued, res[1])
              /\ mainPc' = "bearer_to_file"
              /\ UNCHANGED <<fault, id_dict>>
  /\ UNCHANGED <<now, ids_txt, ids_initial, refreshAt, submitted, exporterVars,
                 workerVars, serviceVars, fsVars, histVars>>

\* Lines 259-267: the expiry an hour from now (a clock reading no earlier than
\* the one of line 304), the dict of the file as it is, and the file written
\* anew from that dict.
BearerToFile ==
  /\ mainPc = "bearer_to_file"
  /\ \E clock \in ClockAfter(now) :
       LET r == RetrieveIds(TRUE, ids_txt, clock) IN
         IF r.kind = "dict"
           THEN /\ ids_txt' = StoreLines(r.dict, access_token[1], PlusHour(clock))
                /\ refreshAt' = ids_txt
                /\ mainPc' = "reload"
                /\ UNCHANGED <<fault, id_dict, access_token>>
           ELSE /\ AfterRetrieve(r)
                /\ UNCHANGED <<ids_txt, refreshAt>>
  /\ UNCHANGED <<now, ids_initial, tokenRequests, issued, submitted, exporterVars,
                 workerVars, serviceVars, fsVars, histVars>>

\* Lines 269-270, 244, 309-311: the file is read back and the dict goes up
\* to main.
Reload ==
  /\ mainPc = "reload"
  /\ AfterRetrieve(RetrieveIds(TRUE, ids_txt, now))
  /\ UNCHANGED <<now, ids_txt, credHist, submitted, exporterVars, workerVars,
                 serviceVars, fsVars, histVars>>

\* Lines 187, 193: exporter = ReportExporter(bearer, ...) with the bearer of
\* the dict.
MainConstruct ==
  /\ mainPc = "construct"
  /\ mainPc' = "submit"
  /\ bearer' = DictGet(id_dict, BearerKey)
  /\ num_of_export_jobs_done' = 0
  /\ file1' = None /\ file2' = None /\ file3' = None
  /\ now' = NoDatetime
  /\ UNCHANGED <<ids_txt, id_dict, access_token, fault, credHist, submitted, workerVars, serviceVars,
                 fsVars, histVars>>

\* Lines 210-211: one executor.submit per batch, in index order; the pool
\* starts a thread for each submitted call.
MainSubmit ==
  /\ mainPc = "submit"
  /\ submitted < NumBatches
  /\ pc' = [pc EXCEPT ![submitted] = "get_export_id"]
  /\ submitted' = submitted + 1
  /\ mainPc' = IF submitted + 1 = NumBatches THEN "wait" ELSE "submit"
  /\ UNCHANGED <<credVars, credHist, exporterVars, export_id, loaded, target,
                 merger, future, serviceVars, fsVars, histVars>>

\* Mutant: wait(..., return_when=FIRST_COMPLETED) and no join of the pool.
MainWait_FirstCompleted ==
  /\ mainPc = "wait"
  /\ \E i \in Batches : future[i].done
  /\ mainPc' = "reported"
  /\ UNCHANGED <<credVars, credHist, submitted, exporterVars, workerVars,
                 serviceVars, fsVars, histVars>>

\* Mutant: the futures' results are asked for, which re-raises the first
\* exception a call ended with.
MainWait_Reraise ==
  /\ mainPc = "wait"
  /\ \A i \in Batches : future[i].done
  /\ IF \E i \in Batches : future[i].exception # "none"
       THEN /\ mainPc' = "aborted"
            /\ fault' = future[CHOOSE i \in Batches : future[i].exception # "none"].exception
       ELSE /\ mainPc' = "reported"
            /\ UNCHANGED fault
  /\ UNCHANGED <<ids_txt, id_dict, now, access_token, credHist, submitted,
                 exporterVars, workerVars, serviceVars, fsVars, histVars>>

\* Lines 212-214: concurrent.futures.wait(futures) returns when every future
\* is done (returned or raised; it never re-raises), the with-block joins the
\* pool and the completion line is logged.
MainWait ==
  /\ mainPc = "wait"
  /\ \A i \in Batches : future[i].done
  /\ mainPc' = "reported"
  /\ UNCHANGED <<credVars, credHist, submitted, exporterVars, workerVars,
                 serviceVars, fsVars, histVars>>

\* ----------------------------------------------------------- get_export_id
\* Lines 85-94: the submit request and what follows from its status code.
GetExportId(i) ==
  /\ pc[i] = "get_export_id"
  /\ \E status \in SubmitStatuses :
       /\ submitStatus' = [submitStatus EXCEPT ![i] = status]
       /\ IF status = 202
            THEN jobs' = [jobs EXCEPT ![JobId(i)] = "Running"]
            ELSE UNCHANGED serviceVars
       /\ IF RaiseForStatus(status)
            THEN Finish(i, Raised("HTTPError"))
            ELSE IF status = 202 /\ i >= 0
                   THEN /\ export_id' = [export_id EXCEPT ![i] = JobId(i)]
                        /\ pc' = [pc EXCEPT ![i] = "poll"]
                        /\ UNCHANGED <<loaded, target, merger, future>>
                   ELSE Finish(i, Returned(None))
  /\ UNCHANGED <<credVars, credHist, mainPc, submitted, exporterVars, fsVars,
                 pollReqs, succeededSeen, downloadReqs, arrival, mergeStarts,
                 writes>>

\* ---------------------------------------------------------- generate_report
\* Mutant: any status but "Running" ends the polling loop.
StatusEndsPolling_AnyFinal(status) == status # "Running"

\* Line 127: the status that ends the polling loop.
StatusEndsPolling(status) == status = "Succeeded"

\* Lines 122-131: one status fetch of the polling loop.
GenerateReport(i) ==
  /\ pc[i] = "poll"
  /\ pollReqs' = [pollReqs EXCEPT ![i] = @ \cup {export_id[i]}]
  /\ \E status \in GetStatuses :
       IF RaiseForStatus(status)
         THEN /\ Finish(i, Raised("HTTPError"))
              /\ UNCHANGED succeededSeen
         ELSE IF StatusEndsPolling(jobs[export_id[i]])
                THEN /\ pc' = [pc EXCEPT ![i] = "inc_load"]
                     /\ succeededSeen' = succeededSeen \cup {i}
                     /\ UNCHANGED <<export_id, loaded, target, merger, future>>
                ELSE /\ pc' = [pc EXCEPT ![i] = "sleep"]
                     /\ UNCHANGED <<succeededSeen, export_id, loaded, target,
                                    merger, future>>
  /\ UNCHANGED <<credVars, credHist, mainPc, submitted, exporterVars,
                 serviceVars, fsVars, submitStatus, downloadReqs, arrival,
                 mergeStarts, writes>>

\* Mutant: the download is called after the sleep, whatever the status was.
Sleep_ThenDownload(i) ==
  /\ pc[i] = "sleep"
  /\ pc' = [pc EXCEPT ![i] = "inc_load"]
  /\ UNCHANGED <<credVars, credHist, mainPc, submitted, exporterVars, export_id, loaded, target,
                 merger, future, serviceVars, fsVars, histVars>>

\* Line 132: time.sleep(5), then the next iteration.
Sleep(i) ==
  /\ pc[i] = "sleep"
  /\ pc' = [pc EXCEPT ![i] = "poll"]
  /\ UNCHANGED <<credVars, credHist, mainPc, submitted, exporterVars, export_id, loaded, target,
                 merger, future, serviceVars, fsVars, histVars>>

\* ---------------------------------------------------------- download_report
\* Line 153, first half of "+= 1": read the counter.
IncLoad(i) ==
  /\ pc[i] = "inc_load"
  /\ loaded' = [loaded EXCEPT ![i] = num_of_export_jobs_done]
  /\ pc' = [pc EXCEPT ![i] = "inc_store"]
  /\ UNCHANGED <<credVars, credHist, mainPc, submitted, exporterVars, export_id, target, merger,
                 future, serviceVars, fsVars, histVars>>

\* Line 153, second half of "+= 1": store the value read plus one.
IncStore(i) ==
  /\ pc[i] = "inc_store"
  /\ num_of_export_jobs_done' = loaded[i] + 1
  /\ loaded' = [loaded EXCEPT ![i] = 0]
  /\ pc' = [pc EXCEPT ![i] = "download"]
  /\ UNCHANGED <<credVars, credHist, mainPc, submitted, bearer, file1, file2, file3, export_id,
                 target, merger, future, serviceVars, fsVars, histVars>>

\* Mutant: the slot is chosen by the batch number plus one.
StoreBuffer_NextSlot(batch_num, content) ==
  /\ file1' = IF batch_num = 2 THEN content ELSE file1
  /\ file2' = IF batch_num = 0 THEN content ELSE file2
  /\ file3' = IF batch_num = 1 THEN content ELSE file3

\* Lines 160-165: the slot a batch number stores its bytes in.
StoreBuffer(batch_num, content) ==
  /\ file1' = IF batch_num = 0 THEN content ELSE file1
  /\ file2' = IF batch_num = 1 THEN content ELSE file2
  /\ file3' = IF batch_num = 2 THEN content ELSE file3

\* Lines 154-165: the file request and the store into the batch's buffer.
Download(i) ==
  /\ pc[i] = "download"
  /\ downloadReqs' = [downloadReqs EXCEPT ![i] = Append(@, export_id[i])]
  /\ \E status \in GetStatuses :
       IF RaiseForStatus(status)
         THEN /\ Finish(i, Raised("HTTPError"))
              /\ UNCHANGED <<file1, file2, file3, arrival>>
         ELSE /\ StoreBuffer(i, Artifact(export_id[i]))
              /\ arrival' = Append(arrival, i)
              /\ pc' = [pc EXCEPT ![i] = "check"]
              /\ UNCHANGED <<export_id, loaded, target, merger, future>>
  /\ UNCHANGED <<credVars, credHist, mainPc, submitted, bearer, num_of_export_jobs_done,
                 serviceVars, fsVars, submitStatus, pollReqs, succeededSeen,
                 mergeStarts, writes>>

\* Mutant: the gate opens as soon as one download was counted.
CheckDone_AnyDone(i) ==
  /\ pc[i] = "check"
  /\ IF num_of_export_jobs_done >= 1
       THEN /\ pc' = [pc EXCEPT ![i] = "merge"]
            /\ UNCHANGED <<export_id, loaded, target, merger, future>>
       ELSE Finish(i, Returned(export_id[i]))
  /\ UNCHANGED <<credVars, credHist, mainPc, submitted, exporterVars, serviceVars, fsVars, histVars>>

\* Line 167: the gate of the merge; a call that does not merge returns to
\* generate_report, breaks out of the loop and returns its id (lines 131, 92).
CheckDone(i) ==
  /\ pc[i] = "check"
  /\ IF num_of_export_jobs_done = NumBatches
       THEN /\ pc' = [pc EXCEPT ![i] = "merge"]
            /\ UNCHANGED <<export_id, loaded, target, merger, future>>
       ELSE Finish(i, Returned(export_id[i]))
  /\ UNCHANGED <<credVars, credHist, mainPc, submitted, exporterVars, serviceVars, fsVars, histVars>>

\* Lines 168-170: PdfWriter(), then append of the three buffers in list
\* order; io.BytesIO(None) is an empty stream, which append rejects with
\* PyPDF2's EmptyFileError before anything is written.
Merge(i) ==
  /\ pc[i] = "merge"
  /\ mergeStarts' = mergeStarts + 1
  /\ IF \E k \in 1 .. NumBatches : MergeList[k] = None
       THEN Finish(i, Raised("EmptyFileError"))
       ELSE /\ merger' = [merger EXCEPT ![i] = MergeList]
            /\ pc' = [pc EXCEPT ![i] = "cwd_check"]
            /\ UNCHANGED <<export_id, loaded, target, future>>
  /\ UNCHANGED <<credVars, credHist, mainPc, submitted, exporterVars,
                 serviceVars, fsVars, submitStatus, pollReqs, succeededSeen,
                 downloadReqs, arrival, writes>>

\* os.path.basename(os.getcwd()) == "downloaded_reports".
InDownloadedReports == cwd > 0 \/ invokedInDR

\* Line 171: is the working directory already the output directory?
CwdCheck(i) ==
  /\ pc[i] = "cwd_check"
  /\ pc' = [pc EXCEPT ![i] = IF ~InDownloadedReports THEN "getcwd1" ELSE "write"]
  /\ UNCHANGED <<credVars, credHist, mainPc, submitted, exporterVars, export_id, loaded, target,
                 merger, future, serviceVars, fsVars, histVars>>

\* Lines 173 and 176: the argument f'{os.getcwd()}/downloaded_reports'.
Getcwd(i, from, to) ==
  /\ pc[i] = from
  /\ target' = [target EXCEPT ![i] = cwd + 1]
  /\ pc' = [pc EXCEPT ![i] = to]
  /\ UNCHANGED <<credVars, credHist, mainPc, submitted, exporterVars, export_id, loaded,
                 merger, future, serviceVars, fsVars, histVars>>

Getcwd1(i) == Getcwd(i, "getcwd1", "chdir1")

\* Lines 172-174: os.chdir to the computed path; FileNotFoundError is caught.
Chdir1(i) ==
  /\ pc[i] = "chdir1"
  /\ IF target[i] <= maxDir
       THEN /\ cwd' = target[i]
            /\ pc' = [pc EXCEPT ![i] = "write"]
       ELSE /\ pc' = [pc EXCEPT ![i] = "makedirs"]
            /\ UNCHANGED cwd
  /\ target' = [target EXCEPT ![i] = 0]
  /\ UNCHANGED <<credVars, credHist, mainPc, submitted, exporterVars, export_id, loaded, merger,
                 future, serviceVars, maxDir, invokedInDR, disk, histVars>>

\* Line 175: os.makedirs("downloaded_reports"), relative to the working
\* directory; FileExistsError when it is already there.
Makedirs(i) ==
  /\ pc[i] = "makedirs"
  /\ IF cwd + 1 <= maxDir
       THEN /\ Finish(i, Raised("FileExistsError"))
            /\ UNCHANGED maxDir
       ELSE /\ maxDir' = cwd + 1
            /\ pc' = [pc EXCEPT ![i] = "getcwd2"]
            /\ UNCHANGED <<export_id, loaded, target, merger, future>>
  /\ UNCHANGED <<credVars, credHist, mainPc, submitted, exporterVars, serviceVars, cwd,
                 invokedInDR, disk, histVars>>

Getcwd2(i) == Getcwd(i, "getcwd2", "chdir2")

\* Line 176: the second os.chdir, outside the try.
Chdir2(i) ==
  /\ pc[i] = "chdir2"
  /\ IF target[i] <= maxDir
       THEN /\ cwd' = target[i]
            /\ pc' = [pc EXCEPT ![i] = "write"]
            /\ target' = [target EXCEPT ![i] = 0]
            /\ UNCHANGED <<export_id, loaded, merger, future>>
       ELSE /\ Finish(i, Raised("FileNotFoundError"))
            /\ UNCHANGED cwd
  /\ UNCHANGED <<credVars, credHist, mainPc, submitted, exporterVars, serviceVars, maxDir,
                 invokedInDR, disk, histVars>>

\* Lines 178-180: the merged file is written under its relative name, then the
\* call returns through generate_report to line 92.
Write(i) ==
  /\ pc[i] = "write"
  /\ disk' = [disk EXCEPT ![cwd] = merger[i]]
  /\ writes' = writes + 1
  /\ Finish(i, Returned(export_id[i]))
  /\ UNCHANGED <<credVars, credHist, mainPc, submitted, exporterVars, serviceVars, cwd, maxDir,
                 invokedInDR, submitStatus, pollReqs, succeededSeen,
                 downloadReqs, arrival, mergeStarts>>

\* ------------------------------------------------------- reporting service
\* An export job finishes on the service, well or badly.
JobProgress(j) ==
  /\ jobs[j] = "Running"
  /\ \E s \in {"Succeeded", "Failed"} : jobs' = [jobs EXCEPT ![j] = s]
  /\ UNCHANGED <<credVars, credHist, mainPc, submitted, exporterVars, workerVars, fsVars, histVars>>

\* ---------------------------------------------------------------------- Next
Worker(i) ==
  \/ GetExportId(i) \/ GenerateReport(i) \/ Sleep(i)
  \/ IncLoad(i) \/ IncStore(i) \/ Download(i) \/ CheckDone(i) \/ Merge(i)
  \/ CwdCheck(i) \/ Getcwd1(i) \/ Chdir1(i) \/ Makedirs(i) \/ Getcwd2(i)
  \/ Chdir2(i) \/ Write(i)

Main ==
  \/ MainRetrieveIds \/ CreateBearer \/ BearerToFile \/ Reload
  \/ MainConstruct \/ MainSubmit \/ MainWait

Next ==
  \/ Main
  \/ \E i \in Batches : Worker(i)
  \/ \E j \in 1 .. NumBatches : JobProgress(j)

Spec == Init /\ [][Next]_vars

\* The operating system schedules main and each pool thread fairly.
FairSpec ==
  /\ Spec
  /\ WF_vars(Main)
  /\ \A i \in Batches : WF_vars(Worker(i))

\* ------------------------------------------------------------------ claims
\* The three calls were accepted with 202, saw "Succeeded" and had their
\* download request return.
AllThreeDownloaded ==
  /\ \A i \in Batches : submitStatus[i] = 202 /\ i \in succeededSeen
  /\ \A k \in 1 .. NumBatches : Buffers[k] # None

\* The document lines 169-170 are meant to build: the bytes of batch 0, then
\* batch 1, then batch 2.
BatchOrderDocument == [k \in 1 .. NumBatches |-> Artifact(JobId(k - 1))]

\* C1: in a run that ended with all three batches accepted, succeeded and
\* downloaded, the merge step (PdfWriter built, merged file written) has
\* executed exactly once.
C1_MergeExactlyOnce ==
  (mainPc = "reported" /\ AllThreeDownloaded) => (mergeStarts = 1 /\ writes = 1)

\* C2: a call is in the merge step only when all three downloads have
\* completed, so that none of file1, file2, file3 is still None.
C2_MergeAfterAllDownloads ==
  \A i \in Batches :
    pc[i] = "merge" => \A k \in 1 .. NumBatches : Buffers[k] # None

\* C3: whatever the order the downloads completed in, a document the merge
\* step builds or writes is the buffers of batch 0, 1, 2 in that order.
C3_MergedInBatchOrder ==
  /\ \A d \in DOMAIN disk : disk[d] # <<>> => disk[d] = BatchOrderDocument
  /\ \A i \in Batches : merger[i] # <<>> => merger[i] = BatchOrderDocument

\* C3 witness: the bytes arrived in the order 2, 0, 1 and a merged file
\* was written.
C3_Witness ==
  /\ arrival = <<2, 0, 1>>
  /\ \E d \in DOMAIN disk : disk[d] # <<>>

\* C4: a call whose submit was answered with a status other than 202 has
\* handed None to its caller and issued no status fetch and no download.
C4_Non202ReturnsNone ==
  \A i \in Batches :
    (future[i].done /\ submitStatus[i] \notin {0, 202}) =>
      /\ future[i] = Returned(None)
      /\ pollReqs[i] = {}
      /\ downloadReqs[i] = <<>>

\* What ids.txt held when the run began, as retrieve_ids reads it.
InitialRead == ReadLines(ids_initial, 1, <<>>, <<>>)

\* retrieve_ids(False) of line 183 has ended, by returning or by raising.
LoadEnded == mainPc \in {"construct", "aborted"}

\* C5: retrieve_ids(False) on a readable store whose token request (if any)
\* yields a token: with the bearer expiry in the past, exactly one token
\* request and the returned mapping's bearer is the token issued; with the
\* expiry not in the past, no token request and the stored mapping returned;
\* the nested retrieve_ids(True) calls start no further refresh.
C5_RefreshOnceWhenExpired ==
  (/\ LoadEnded
   /\ InitialRead.exc = "none"
   /\ InitialRead.bearer_expiry # <<>>
   /\ fault # "KeyError")
  => IF Later(now, InitialRead.bearer_expiry[1])
       THEN /\ mainPc = "construct"
            /\ tokenRequests = 1
            /\ Len(issued) = 1
            /\ DictGet(id_dict, BearerKey) = << issued[1] >>
       ELSE /\ mainPc = "construct"
            /\ tokenRequests = 0
            /\ id_dict = InitialRead.dict
            /\ ids_txt = ids_initial

\* C6: once bearer_to_file has rewritten the store, the file has one line per
\* key, in the order of the keys, and reading it with the expiry check
\* skipped gives the key/value pairs read before the rewrite, except for
\* bearer, whose value is the token just issued.
C6_RewriteKeepsOtherKeys ==
  refreshAt # <<>> =>
    LET before == RetrieveIds(TRUE, refreshAt, now).dict
        after == RetrieveIds(TRUE, ids_txt, now)
    IN /\ after.kind = "dict"
       /\ Len(ids_txt) = Len(before)
       /\ \A n \in DOMAIN before : after.dict[n][1] = before[n][1]
       /\ \A n \in DOMAIN before :
            IF before[n][1] = BearerKey
              THEN after.dict[n][2] = issued[Len(issued)]
              ELSE after.dict[n][2] = before[n][2]

\* The job of call i was accepted and has not become "Succeeded", and no
\* HTTP error ended the call.
StillNotSucceeded(i) ==
  /\ submitStatus[i] = 202
  /\ jobs[JobId(i)] # "Succeeded"
  /\ future[i].exception # "HTTPError"

\* C7: as long as the status of an accepted job has not become "Succeeded"
\* (and no status fetch failed), its call is still in the polling loop, has
\* issued no download, and main has not reported completion.
C7_PollsUntilSucceeded ==
  \A i \in Batches :
    StillNotSucceeded(i) =>
      /\ pc[i] \in {"poll", "sleep"}
      /\ downloadReqs[i] = <<>>
      /\ ~future[i].done
      /\ mainPc # "reported"

\* C7 witness: a job ended "Failed"; its call has fetched that status and
\* sleeps before the next fetch, while the other two calls are over and main
\* waits.
C7_Witness ==
  \E i \in Batches :
    /\ StillNotSucceeded(i)
    /\ jobs[JobId(i)] = "Failed"
    /\ pc[i] = "sleep"
    /\ \A k \in Batches \ {i} : future[k].done
    /\ mainPc = "wait"

\* No call or main has met an HTTP error.
NoHttpError ==
  /\ \A i \in Batches : future[i].exception # "HTTPError"
  /\ fault = "none"

\* Every submit was answered 202, every job is "Succeeded" and no HTTP
\* request has failed.  Each part, once false after the three submits, stays
\* false, so "eventually always" says it of the whole run.
AllWentWell ==
  /\ \A i \in Batches : submitStatus[i] = 202 /\ jobs[JobId(i)] = "Succeeded"
  /\ NoHttpError

\* C8: completion is never reported while a submitted call is running; and
\* under fair scheduling, when every submit is answered 202, every job
\* becomes "Succeeded" and no HTTP request fails, all three calls finish and
\* the run reports completion.
C8_CompletesWhenAllSucceed ==
  /\ [](mainPc = "reported" => \A i \in Batches : future[i].done)
  /\ (<>[]AllWentWell => <>(mainPc = "reported"))

\* C8 witness: completion reported after all three calls returned their id
\* and the merged file was written.
C8_Witness ==
  /\ mainPc = "reported"
  /\ \A i \in Batches : future[i] = Returned(JobId(i))
  /\ writes > 0

\* C9 as claimed: once an HTTP error was raised in a call, the run does not
\* report completion.
C9_HttpErrorStopsRun ==
  (\E i \in Batches : future[i].exception = "HTTPError") => mainPc # "reported"

\* C9 amended: the step in which a call ends with an HTTP error leaves main
\* and the other calls as they were; main is never ended by an exception once
\* it has submitted a call; and when all three calls have ended, main's wait
\* is over and completion is reported.
C9_HttpErrorEndsOnlyItsCall ==
  /\ [][ \A i \in Batches :
           (future[i].exception # "HTTPError" /\ future'[i].exception = "HTTPError")
           => /\ mainPc' = mainPc
              /\ fault' = fault
              /\ \A k \in Batches \ {i} : pc'[k] = pc[k] /\ future'[k] = future[k] ]_vars
  /\ [](submitted > 0 => mainPc # "aborted")
  /\ []((mainPc = "wait" /\ \A i \in Batches : future[i].done) => ENABLED MainWait)

\* C9 witness: one call ended with an HTTP error, another ran on to return
\* its id, and completion was reported.
C9_Witness ==
  /\ mainPc = "reported"
  /\ \E i \in Batches : future[i].exception = "HTTPError"
  /\ \E k \in Batches : future[k] = Returned(JobId(k))

\* C10: every merged file is in <D>/downloaded_reports (depth 1 below D).
C10_WrittenInDownloadedReports ==
  \A d \in DOMAIN disk : disk[d] # <<>> => d = 1

\* The call of batch i is inside download_report (lines 153-180).
InDownloadReport(i) ==
  pc[i] \in {"inc_load", "inc_store", "download", "check", "merge", "cwd_check",
             "getcwd1", "chdir1", "makedirs", "getcwd2", "chdir2", "write"}

\* C11: per job the steps come in the order accepted (202), polled,
\* "Succeeded" observed, downloaded: a status is fetched only for an accepted
\* submit; a call is in download_report, or has issued a file request for a
\* job id, only when it has fetched the status of that id and the job is
\* "Succeeded"; at most one file request is issued per job; and a call has
\* returned a job id only with its file request made and its bytes stored.
C11_DownloadAfterSucceeded ==
  \A i \in Batches :
    /\ pollReqs[i] # {} => submitStatus[i] = 202
    /\ InDownloadReport(i) =>
         /\ export_id[i] \in pollReqs[i]
         /\ jobs[export_id[i]] = "Succeeded"
    /\ Len(downloadReqs[i]) <= 1
    /\ \A n \in DOMAIN downloadReqs[i] :
         /\ downloadReqs[i][n] \in pollReqs[i]
         /\ jobs[downloadReqs[i][n]] = "Succeeded"
         /\ i \in succeededSeen
    /\ (future[i].done /\ future[i].result # None) =>
         /\ downloadReqs[i] = << future[i].result >>
         /\ Slot(i) = Artifact(future[i].result)
         /\ pc[i] = "done"

\* C11 witness: a call fetched the status of its job, downloaded the file and
\* returned the job id, while another call sleeps between two fetches of a
\* job still "Running".
C11_Witness ==
  \E i \in Batches :
    /\ future[i] = Returned(JobId(i))
    /\ downloadReqs[i] = << JobId(i) >>
    /\ JobId(i) \in pollReqs[i]
    /\ \E k \in Batches \ {i} : pc[k] = "sleep" /\ jobs[JobId(k)] = "Running"

\* The calls that have executed the "+= 1" of line 153: they entered
\* download_report and are past the store of the counter.
Incremented ==
  { i \in succeededSeen : pc[i] \notin {"inc_load", "inc_store"} }

\* C12: the counter equals the number of calls that have executed the
\* increment of line 153.
C12_CounterCountsEntries ==
  num_of_export_jobs_done = Cardinality(Incremented)

\* The number of times batch number b occurs in the arrival order.
RECURSIVE Occurrences(_, _)
Occurrences(s, b) ==
  IF s = <<>> THEN 0
  ELSE (IF Head(s) = b THEN 1 ELSE 0) + Occurrences(Tail(s), b)

\* C13: main submits one get_export_id call per batch index 0, 1, 2, in that
\* order and no more; each call fetches the status and the file only of the
\* job its own submit created; and buffer slot i holds nothing or the bytes
\* downloaded for the job of batch i, stored at most once.
C13_EachCallItsOwnJob ==
  /\ submitted \in 0 .. NumBatches
  /\ mainPc \in {"wait", "reported"} => submitted = NumBatches
  /\ \A i \in Batches :
       /\ pc[i] # "unsubmitted" <=> i < submitted
       /\ export_id[i] \in {None, JobId(i)}
       /\ pollReqs[i] \subseteq {JobId(i)}
       /\ \A n \in DOMAIN downloadReqs[i] : downloadReqs[i][n] = JobId(i)
       /\ Slot(i) \in {None, Artifact(JobId(i))}
       /\ Slot(i) # None <=> Occurrences(arrival, i) = 1
       /\ Occurrences(arrival, i) <= 1
       /\ jobs[JobId(i)] # "none" <=> submitStatus[i] = 202

\* C13 witness: the three calls were submitted, each fetched the status of
\* its own job and each slot holds the bytes of its own batch's job.
C13_Witness ==
  /\ submitted = NumBatches
  /\ \A i \in Batches :
       /\ pollReqs[i] = {JobId(i)}
       /\ downloadReqs[i] = << JobId(i) >>
       /\ Slot(i) = Artifact(JobId(i))

\* main is past the credential load: the exporter exists and the pool runs.
ExportPhase == mainPc \in {"submit", "wait", "reported"}

\* C14: at most one token request and one rewrite of the store are made in a
\* run; a submit call or submit request exists only once main is past the
\* credential load and refresh; and from then on no step changes the
\* exporter's bearer, the store file or the number of token requests.
C14_CredentialsSettledBeforeSubmits ==
  /\ [](tokenRequests <= 1 /\ Len(issued) <= 1)
  /\ []((submitted > 0 \/ \E i \in Batches : pc[i] # "unsubmitted" \/ submitStatus[i] # 0)
        => ExportPhase)
  /\ [](ExportPhase =>
          /\ bearer = DictGet(RetrieveIds(TRUE, ids_txt, now).dict, BearerKey)
          /\ (tokenRequests = 1 => bearer = << issued[1] >> /\ refreshAt = ids_initial)
          /\ (tokenRequests = 0 => ids_txt = ids_initial))
  /\ [][ExportPhase =>
          /\ ExportPhase'
          /\ bearer' = bearer
          /\ ids_txt' = ids_txt
          /\ tokenRequests' = tokenRequests
          /\ issued' = issued]_vars

\* C14 witness: the token was refreshed and the store rewritten, and a call
\* carrying the new token has had its submit answered.
C14_Witness ==
  /\ tokenRequests = 1
  /\ ids_txt # ids_initial
  /\ bearer = << issued[1] >>
  /\ \E i \in Batches : submitStatus[i] = 202

\* The faults of the claim: no access token in the token endpoint's answer
\* (KeyError, line 243), a line without a value field (IndexError, line 297),
\* no bearer line with the expiry check on (TypeError, line 305).
CredentialFaults == {"KeyError", "IndexError", "TypeError"}

\* C15: a token request that yields no token, a store line without a value
\* field and a store without a bearer line each end main with that fault as
\* soon as the load is over; a run ended by one of these faults has its store
\* file exactly as it was when the run began; and a run ended by a fault has
\* submitted no call, issued no submit request, and stays ended.
C15_CredentialFaultAbortsUntouched ==
  /\ [](fault # "none" <=> mainPc = "aborted")
  /\ [](tokenRequests > Len(issued) => fault = "KeyError")
  /\ []((mainPc # "retrieve_ids" /\ \E k \in DOMAIN ids_initial : Len(ids_initial[k]) < 2)
        => fault = "IndexError")
  /\ []((mainPc # "retrieve_ids" /\ InitialRead.exc = "none"
          /\ InitialRead.bearer_expiry = <<>>)
        => fault = "TypeError")
  /\ [](fault \in CredentialFaults => ids_txt = ids_initial /\ refreshAt = <<>>)
  /\ [](mainPc = "aborted" =>
          /\ submitted = 0
          /\ \A i \in Batches :
               pc[i] = "unsubmitted" /\ submitStatus[i] = 0 /\ ~future[i].done
          /\ \A j \in 1 .. NumBatches : jobs[j] = "none")
  /\ [][mainPc = "aborted" => mainPc' = "aborted" /\ fault' = fault]_vars

\* C15 witness: the bearer had expired, the token request was made and its
\* answer held no access token; main ended with KeyError.
C15_Witness ==
  /\ fault = "KeyError"
  /\ mainPc = "aborted"
  /\ tokenRequests = 1
  /\ issued = <<>>
  /\ ids_txt = ids_initial

\* The submit of batch i was answered 202 and its job is "Succeeded", seen
\* by the call's own status fetch.
AcceptedAndSucceeded(i) ==
  /\ submitStatus[i] = 202
  /\ jobs[JobId(i)] = "Succeeded"
  /\ JobId(i) \in pollReqs[i]
  /\ i \in succeededSeen

\* A call is in the merge step, or the step was entered or a merged file
\* written earlier in the run.
MergeReached ==
  \/ mergeStarts > 0
  \/ writes > 0
  \/ \E d \in DOMAIN disk : disk[d] # <<>>
  \/ \E i \in Batches :
       pc[i] \in {"merge", "cwd_check", "getcwd1", "chdir1", "makedirs",
                  "getcwd2", "chdir2", "write"}

\* C16: the counter never exceeds the number of calls that observed
\* "Succeeded" (each of them accepted with 202), nor 3; and the merge step is
\* reached, or a merged file written, only when all three submits were
\* accepted and all three jobs observed "Succeeded".
C16_MergeNeedsThreeSucceeded ==
  /\ num_of_export_jobs_done <= Cardinality(succeededSeen)
  /\ num_of_export_jobs_done <= NumBatches
  /\ \A i \in succeededSeen : AcceptedAndSucceeded(i)
  /\ MergeReached => \A i \in Batches : AcceptedAndSucceeded(i)

\* C16 witness: one submit was not accepted, the other two jobs succeeded
\* and were downloaded, the run reported completion and nothing was merged.
C16_Witness ==
  /\ mainPc = "reported"
  /\ \E i \in Batches : submitStatus[i] = 200
  /\ num_of_export_jobs_done = NumBatches - 1
  /\ Cardinality(succeededSeen) = NumBatches - 1
  /\ ~MergeReached

====
